---- MODULE Spec2Model ----
(***************************************************************************)
(* The view/session controller of the Freedom-Score front-end              *)
(* (src/frontend/src/App.js): the React state of App, the browser's        *)
(* localStorage and query string, the requests in flight, and one action   *)
(* per handler, per rendered control and per response.                     *)
(*                                                                         *)
(* A step is one run of a handler up to its first await, or the rest of a  *)
(* handler once its request has settled, followed by the render React      *)
(* commits for the new state.                                              *)
(***************************************************************************)
EXTENDS Naturals, Sequences, FiniteSets

VARIABLES
    user,           \* useState(null): the signed-in profile, or null
    calendarData,   \* useState(""): the pasted text, a sequence of characters
    timePeriod,     \* useState("this_week")
    analysis,       \* useState(null): the last analysis result, or null
    loading,        \* useState(false)
    error,          \* useState(""): "" is no error
    showManual,     \* useState(false)
    storage,        \* localStorage: the access_token and user_data slots
    url,            \* window.location.search: auth, token, user, name
    phase,          \* "render1": first render committed, mount effect pending;
                    \* "ready": mounted; "away": the page navigated away
                    \* "reloading": the page is about to reload itself
    screen,         \* the screen of the last committed render
    inflight,       \* requests awaiting their response, by kind
    net,            \* the HTTP request issued by the last step, or NoRequest
    resp,           \* the response or error the last step received, or NoResponse
    last            \* the handler or callback the last step ran

vars == <<user, calendarData, timePeriod, analysis, loading, error, showManual,
          storage, url, phase, screen, inflight, net, resp, last>>

----------------------------------------------------------------------------
(* Bounds of the model *)

\* longest pasted text
MaxLen == 1
\* most requests awaiting a response at once
MaxInFlight == 2
\* how many options of a selector the user picks among
MaxOptions == 2

----------------------------------------------------------------------------
(* Values *)

\* JavaScript null, for object-valued state
null == [null |-> TRUE]
\* JavaScript null, for string-valued slots (getItem / URLSearchParams.get)
none == "<null>"

\* characters of a pasted text: a whitespace character and a visible one
Chars == {" ", "a"}
IsSpace(c) == c = " "

RECURSIVE TextsOfLen(_)
TextsOfLen(n) ==
    IF n = 0 THEN {<<>>}
    ELSE {Append(t, c) : t \in TextsOfLen(n - 1), c \in Chars}

Texts == UNION {TextsOfLen(n) : n \in 0..MaxLen}

\* String.prototype.trim: drop the whitespace at both ends
RECURSIVE TrimStart(_)
TrimStart(s) ==
    IF s = <<>> THEN <<>>
    ELSE IF IsSpace(Head(s)) THEN TrimStart(Tail(s))
    ELSE s

RECURSIVE TrimEnd(_)
TrimEnd(s) ==
    IF s = <<>> THEN <<>>
    ELSE IF IsSpace(s[Len(s)]) THEN TrimEnd(SubSeq(s, 1, Len(s) - 1))
    ELSE s

\* a test of the raw text, with no trim
Trim_Missing(s) == s

Trim(s) == TrimEnd(TrimStart(s))

\* truthiness of a string or null: null and "" are falsy
Truthy(s) == s # none /\ s # ""

\* the || of `detail || fallback`
OrElse(a, b) == IF Truthy(a) THEN a ELSE b

\* JSON.stringify / JSON.parse of a profile object
JSONStringify(o) == [json |-> o]
JSONParse(s) == s.json

\* the option values of the two time-period selectors, in document order
ManualOptions == <<"today", "this week", "this month", "recent days">>
DashboardOptions == <<"today", "this_week", "this_month", "recent_days">>

\* the options the user picks among: the first MaxOptions of a selector
Offered(options) ==
    {options[i] : i \in {j \in 1..Len(options) : j <= MaxOptions}}

\* what the backend and the browser may supply
BackendToken == "t1"
BackendUser == [id |-> "u1", name |-> "A", email |-> "a@x.com"]
StoredToken == "t0"
StoredUser == [id |-> "u0", name |-> "Z", email |-> "z@x.com"]
Results == {[independence_percentage |-> 25], [independence_percentage |-> 80]}
BackendDetail == "backend detail"

HTTP_UNAUTHORIZED == 401
\* an error of axios: status 0 stands for no response at all (err.response undefined)
Failures ==
    {[status |-> 0, detail |-> none]}
    \cup {[status |-> s, detail |-> d] :
            s \in {HTTP_UNAUTHORIZED, 500}, d \in {none, BackendDetail}}

NoResponse == [status |-> 0, detail |-> "<no response awaited>"]
\* a response of the backend that is no error
Ok == [status |-> 200, detail |-> none]

\* err.response?.data?.detail
DetailOf(err) == err.detail

\* the user-visible messages
MsgOAuthFailed == "Google Calendar authorization failed. Please try again."
MsgLoginFailed == "Login failed. Please try again."
MsgWidgetFailed == "Google login failed. Please try again."
MsgCalendarAccessFailed == "Failed to request calendar access."
MsgCalendarAccessRequired ==
    "Calendar access required. Please authorize Google Calendar access first."
MsgAutoFailed == "Failed to analyze calendar. Please try again."
MsgPasteFirst == "Please paste your schedule data first!"
MsgManualFailed == "Failed to analyze your freedom. Please try again."

\* query strings a load may carry
NoParams == [auth |-> none, token |-> none, user |-> none, name |-> none]
URLs ==
    {NoParams,
     [NoParams EXCEPT !.auth = "error"],
     [NoParams EXCEPT !.auth = "success"],
     [auth |-> "success", token |-> "tq", user |-> "q@x.com", name |-> "Q"]}

\* localStorage: getItem gives null for a slot that is not there
EmptyStorage == [access_token |-> none, user_data |-> null]
\* at a load: nothing, or the session an earlier visit left
Storages ==
    {EmptyStorage,
     [access_token |-> StoredToken, user_data |-> JSONStringify(StoredUser)]}

\* the requests the controller issues
Kinds == {"login", "calendar", "auto", "manual"}
NoRequest ==
    [method |-> "none", endpoint |-> "", authorization |-> none,
     time_period |-> none, calendar_data |-> <<>>, token |-> none]
NoneInFlight == [k \in Kinds |-> 0]
InFlightTotal == inflight["login"] + inflight["calendar"] + inflight["auto"]
                 + inflight["manual"]
\* room for one more request within the model's bound
CanSend == InFlightTotal < MaxInFlight
Sent(k) == [inflight EXCEPT ![k] = @ + 1]
Settled(k) == [inflight EXCEPT ![k] = @ - 1]

----------------------------------------------------------------------------
(* The render: which of the three screens App returns *)

\* a render that looks at the session before the manual-mode flag
Screen_SessionFirst(sm, u) ==
    IF u # null THEN "dashboard"
    ELSE IF sm THEN "manual"
    ELSE "login"

Screen(sm, u) ==
    IF sm THEN "manual"
    ELSE IF u = null THEN "login"
    ELSE "dashboard"

\* the render React commits after a step
Commit == screen' = Screen(showManual', user')

\* both the manual-entry screen and the dashboard show the form while there
\* is no result, and the result panel otherwise
FormShown == analysis = null

----------------------------------------------------------------------------
(* Load *)

\* the useState initial values, with whatever the browser holds
FirstRender(st, q) ==
    /\ user = null
    /\ calendarData = <<>>
    /\ timePeriod = "this_week"
    /\ analysis = null
    /\ loading = FALSE
    /\ error = ""
    /\ showManual = FALSE
    /\ storage = st
    /\ url = q
    /\ phase = "render1"
    /\ screen = Screen(FALSE, null)
    /\ inflight = NoneInFlight
    /\ net = NoRequest
    /\ resp = NoResponse
    /\ last = "load"

Init == \E st \in Storages, q \in URLs : FirstRender(st, q)

\* the profile built from the query string of the OAuth redirect
UrlUser(q) == [email |-> q.user, name |-> q.name, id |-> q.user]

\* the mount effect without its auth=error branch
useEffectInit_IgnoresError ==
    /\ phase = "render1"
    /\ LET token == storage.access_token
           userData == storage.user_data
           restored == IF Truthy(token) /\ userData # null
                       THEN JSONParse(userData) ELSE user
       IN  IF url.auth = "success" /\ Truthy(url.token) /\ Truthy(url.user)
           THEN /\ storage' = [access_token |-> url.token,
                               user_data |-> JSONStringify(UrlUser(url))]
                /\ user' = UrlUser(url)
                /\ url' = NoParams
                /\ error' = error
           ELSE /\ user' = restored
                /\ UNCHANGED <<storage, url, error>>
    /\ phase' = "ready"
    /\ net' = NoRequest
    /\ resp' = NoResponse
    /\ last' = "useEffect"
    /\ UNCHANGED <<calendarData, timePeriod, analysis, loading, showManual, inflight>>
    /\ Commit

\* the mount effect giving up the stored session when the callback failed
useEffectInit_ErrorDropsSession ==
    /\ phase = "render1"
    /\ LET token == storage.access_token
           userData == storage.user_data
           restored == IF Truthy(token) /\ userData # null
                       THEN JSONParse(userData) ELSE user
       IN  IF url.auth = "success" /\ Truthy(url.token) /\ Truthy(url.user)
           THEN /\ storage' = [access_token |-> url.token,
                               user_data |-> JSONStringify(UrlUser(url))]
                /\ user' = UrlUser(url)
                /\ url' = NoParams
                /\ error' = error
           ELSE IF url.auth = "error"
           THEN /\ error' = MsgOAuthFailed
                /\ user' = null
                /\ UNCHANGED <<storage, url>>
           ELSE /\ user' = restored
                /\ UNCHANGED <<storage, url, error>>
    /\ phase' = "ready"
    /\ net' = NoRequest
    /\ resp' = NoResponse
    /\ last' = "useEffect"
    /\ UNCHANGED <<calendarData, timePeriod, analysis, loading, showManual, inflight>>
    /\ Commit

\* the mount effect taking the callback branch on auth=success alone
useEffectInit_SuccessWithoutToken ==
    /\ phase = "render1"
    /\ LET token == storage.access_token
           userData == storage.user_data
           restored == IF Truthy(token) /\ userData # null
                       THEN JSONParse(userData) ELSE user
       IN  IF url.auth = "success"
           THEN /\ storage' = [access_token |-> url.token,
                               user_data |-> JSONStringify(UrlUser(url))]
                /\ user' = UrlUser(url)
                /\ url' = NoParams
                /\ error' = error
           ELSE IF url.auth = "error"
           THEN /\ error' = MsgOAuthFailed
                /\ user' = restored
                /\ UNCHANGED <<storage, url>>
           ELSE /\ user' = restored
                /\ UNCHANGED <<storage, url, error>>
    /\ phase' = "ready"
    /\ net' = NoRequest
    /\ resp' = NoResponse
    /\ last' = "useEffect"
    /\ UNCHANGED <<calendarData, timePeriod, analysis, loading, showManual, inflight>>
    /\ Commit

\* the mount effect: restore the session from storage, then handle the
\* OAuth callback parameters
useEffectInit ==
    /\ phase = "render1"
    /\ LET token == storage.access_token
           userData == storage.user_data
           restored == IF Truthy(token) /\ userData # null
                       THEN JSONParse(userData) ELSE user
       IN  IF url.auth = "success" /\ Truthy(url.token) /\ Truthy(url.user)
           THEN /\ storage' = [access_token |-> url.token,
                               user_data |-> JSONStringify(UrlUser(url))]
                /\ user' = UrlUser(url)
                /\ url' = NoParams
                /\ error' = error
           ELSE IF url.auth = "error"
           THEN /\ error' = MsgOAuthFailed
                /\ user' = restored
                /\ UNCHANGED <<storage, url>>
           ELSE /\ user' = restored
                /\ UNCHANGED <<storage, url, error>>
    /\ phase' = "ready"
    /\ net' = NoRequest
    /\ resp' = NoResponse
    /\ last' = "useEffect"
    /\ UNCHANGED <<calendarData, timePeriod, analysis, loading, showManual, inflight>>
    /\ Commit

\* the browser loads the page anew (a reload, or the redirect back from the
\* OAuth provider): the component state starts over, storage stays, and the
\* responses of the old page are never delivered
PageLoad ==
    /\ phase \in {"ready", "away"}
    /\ \E q \in URLs :
        /\ user' = null
        /\ calendarData' = <<>>
        /\ timePeriod' = "this_week"
        /\ analysis' = null
        /\ loading' = FALSE
        /\ error' = ""
        /\ showManual' = FALSE
        /\ url' = q
    /\ phase' = "render1"
    /\ inflight' = NoneInFlight
    /\ net' = NoRequest
    /\ resp' = NoResponse
    /\ last' = "load"
    /\ UNCHANGED storage
    /\ Commit

----------------------------------------------------------------------------
(* The handlers, as the controller defines them *)

\* a step of a handler that sends nothing and awaited nothing
Quiet(name) == net' = NoRequest /\ resp' = NoResponse /\ last' = name

\* a step of a handler that sends a request
Sends(name, request) == net' = request /\ resp' = NoResponse /\ last' = name

\* the rest of a handler, run when its request has settled with r
Receives(name, r) == net' = NoRequest /\ resp' = r /\ last' = name

\* POST /api/auth/google, up to the await
handleGoogleLogin ==
    /\ phase = "ready"
    /\ CanSend
    /\ loading' = TRUE
    /\ error' = ""
    /\ inflight' = Sent("login")
    /\ Sends("handleGoogleLogin",
             [NoRequest EXCEPT !.method = "POST", !.endpoint = "/api/auth/google",
             !.token = "credential"])
    /\ UNCHANGED <<user, calendarData, timePeriod, analysis, showManual, storage,
                   url, phase>>
    /\ Commit

\* a sign-in that keeps the session in memory only
handleGoogleLoginOk_NoStore ==
    /\ phase = "ready"
    /\ inflight["login"] > 0
    /\ inflight' = Settled("login")
    /\ user' = BackendUser
    /\ loading' = FALSE
    /\ Receives("handleGoogleLogin:ok", Ok)
    /\ UNCHANGED <<calendarData, timePeriod, analysis, error, showManual, storage,
                   url, phase>>
    /\ Commit

\* ... the response: { access_token, user }
handleGoogleLoginOk ==
    /\ phase = "ready"
    /\ inflight["login"] > 0
    /\ inflight' = Settled("login")
    /\ storage' = [access_token |-> BackendToken,
                   user_data |-> JSONStringify(BackendUser)]
    /\ user' = BackendUser
    /\ loading' = FALSE
    /\ Receives("handleGoogleLogin:ok", Ok)
    /\ UNCHANGED <<calendarData, timePeriod, analysis, error, showManual, url, phase>>
    /\ Commit

\* a failure handler that ignores the detail of the backend
handleGoogleLoginFail_NoDetail ==
    /\ phase = "ready"
    /\ inflight["login"] > 0
    /\ inflight' = Settled("login")
    /\ \E err \in Failures :
        /\ error' = MsgLoginFailed
        /\ Receives("handleGoogleLogin:fail", err)
    /\ loading' = FALSE
    /\ UNCHANGED <<user, calendarData, timePeriod, analysis, showManual, storage,
                   url, phase>>
    /\ Commit

\* ... the request failed
handleGoogleLoginFail ==
    /\ phase = "ready"
    /\ inflight["login"] > 0
    /\ inflight' = Settled("login")
    /\ \E err \in Failures :
        /\ error' = OrElse(DetailOf(err), MsgLoginFailed)
        /\ Receives("handleGoogleLogin:fail", err)
    /\ loading' = FALSE
    /\ UNCHANGED <<user, calendarData, timePeriod, analysis, showManual, storage,
                   url, phase>>
    /\ Commit

\* the identity widget reports a failure
handleGoogleLoginError ==
    /\ phase = "ready"
    /\ error' = MsgWidgetFailed
    /\ Quiet("handleGoogleLoginError")
    /\ UNCHANGED <<user, calendarData, timePeriod, analysis, loading, showManual,
                   storage, url, phase, inflight>>
    /\ Commit

\* GET /api/auth/google-calendar, up to the await
requestCalendarAccess ==
    /\ phase = "ready"
    /\ CanSend
    /\ loading' = TRUE
    /\ error' = ""
    /\ inflight' = Sent("calendar")
    /\ Sends("requestCalendarAccess",
             [NoRequest EXCEPT !.method = "GET",
             !.endpoint = "/api/auth/google-calendar"])
    /\ UNCHANGED <<user, calendarData, timePeriod, analysis, showManual, storage,
                   url, phase>>
    /\ Commit

\* the response of the authorization request without the navigation
requestCalendarAccessOk_StaysOnPage ==
    /\ phase = "ready"
    /\ inflight["calendar"] > 0
    /\ inflight' = Settled("calendar")
    /\ phase' = phase
    /\ Receives("requestCalendarAccess:ok", Ok)
    /\ UNCHANGED <<user, calendarData, timePeriod, analysis, loading, error,
                   showManual, storage, url>>
    /\ Commit

\* ... the response: window.location.href = authorization_url
requestCalendarAccessOk ==
    /\ phase = "ready"
    /\ inflight["calendar"] > 0
    /\ inflight' = Settled("calendar")
    /\ phase' = "away"
    /\ Receives("requestCalendarAccess:ok", Ok)
    /\ UNCHANGED <<user, calendarData, timePeriod, analysis, loading, error,
                   showManual, storage, url>>
    /\ Commit

\* the failure of the authorization request without setLoading(false)
requestCalendarAccessFail_KeepsLoading ==
    /\ phase = "ready"
    /\ inflight["calendar"] > 0
    /\ inflight' = Settled("calendar")
    /\ \E err \in Failures :
        /\ error' = OrElse(DetailOf(err), MsgCalendarAccessFailed)
        /\ Receives("requestCalendarAccess:fail", err)
    /\ loading' = loading
    /\ UNCHANGED <<user, calendarData, timePeriod, analysis, showManual, storage,
                   url, phase>>
    /\ Commit

\* ... the request failed
requestCalendarAccessFail ==
    /\ phase = "ready"
    /\ inflight["calendar"] > 0
    /\ inflight' = Settled("calendar")
    /\ \E err \in Failures :
        /\ error' = OrElse(DetailOf(err), MsgCalendarAccessFailed)
        /\ Receives("requestCalendarAccess:fail", err)
    /\ loading' = FALSE
    /\ UNCHANGED <<user, calendarData, timePeriod, analysis, showManual, storage,
                   url, phase>>
    /\ Commit

\* POST /api/analyze-calendar-auto?time_period=..., up to the await
analyzeCalendarAuto ==
    /\ phase = "ready"
    /\ CanSend
    /\ loading' = TRUE
    /\ error' = ""
    /\ inflight' = Sent("auto")
    /\ Sends("analyzeCalendarAuto",
             [NoRequest EXCEPT !.method = "POST",
             !.endpoint = "/api/analyze-calendar-auto",
             !.time_period = timePeriod,
             !.authorization = storage.access_token])
    /\ UNCHANGED <<user, calendarData, timePeriod, analysis, showManual, storage,
                   url, phase>>
    /\ Commit

\* a success path with no finally block
analyzeCalendarAutoOk_NoFinally ==
    /\ phase = "ready"
    /\ inflight["auto"] > 0
    /\ inflight' = Settled("auto")
    /\ \E r \in Results : analysis' = r
    /\ Receives("analyzeCalendarAuto:ok", Ok)
    /\ UNCHANGED <<user, calendarData, timePeriod, loading, error, showManual,
                   storage, url, phase>>
    /\ Commit

\* ... the response: the analysis result
analyzeCalendarAutoOk ==
    /\ phase = "ready"
    /\ inflight["auto"] > 0
    /\ inflight' = Settled("auto")
    /\ \E r \in Results : analysis' = r
    /\ loading' = FALSE
    /\ Receives("analyzeCalendarAuto:ok", Ok)
    /\ UNCHANGED <<user, calendarData, timePeriod, error, showManual, storage,
                   url, phase>>
    /\ Commit

\* the message of a failed automatic analyze without the case of status 401
AutoError_NoUnauthorizedCase(err) == OrElse(DetailOf(err), MsgAutoFailed)

\* the message of a failed automatic analyze
AutoError(err) ==
    IF err.status = HTTP_UNAUTHORIZED THEN MsgCalendarAccessRequired
    ELSE OrElse(DetailOf(err), MsgAutoFailed)

\* a failure of the automatic analyze that sends the request again
analyzeCalendarAutoFail_Retries ==
    /\ phase = "ready"
    /\ inflight["auto"] > 0
    /\ inflight' = inflight
    /\ \E err \in Failures :
        /\ error' = AutoError(err)
        /\ resp' = err
    /\ net' = [NoRequest EXCEPT !.method = "POST",
                                !.endpoint = "/api/analyze-calendar-auto",
                                !.time_period = timePeriod,
                                !.authorization = storage.access_token]
    /\ last' = "analyzeCalendarAuto:fail"
    /\ loading' = FALSE
    /\ UNCHANGED <<user, calendarData, timePeriod, analysis, showManual, storage,
                   url, phase>>
    /\ Commit

\* ... the request failed
analyzeCalendarAutoFail ==
    /\ phase = "ready"
    /\ inflight["auto"] > 0
    /\ inflight' = Settled("auto")
    /\ \E err \in Failures :
        /\ error' = AutoError(err)
        /\ Receives("analyzeCalendarAuto:fail", err)
    /\ loading' = FALSE
    /\ UNCHANGED <<user, calendarData, timePeriod, analysis, showManual, storage,
                   url, phase>>
    /\ Commit

\* POST /api/analyze-calendar, up to the await; or the local rejection
analyzeCalendarManual ==
    /\ phase = "ready"
    /\ IF Trim(calendarData) = <<>>
       THEN /\ error' = MsgPasteFirst
            /\ Quiet("analyzeCalendarManual")
            /\ UNCHANGED <<loading, inflight>>
       ELSE /\ CanSend
            /\ loading' = TRUE
            /\ error' = ""
            /\ inflight' = Sent("manual")
            /\ Sends("analyzeCalendarManual",
                     [NoRequest EXCEPT !.method = "POST",
                     !.endpoint = "/api/analyze-calendar",
                     !.calendar_data = calendarData,
                     !.time_period = timePeriod])
    /\ UNCHANGED <<user, calendarData, timePeriod, analysis, showManual, storage,
                   url, phase>>
    /\ Commit

\* a success of the manual analyze that clears the error as well
analyzeCalendarManualOk_ClearsError ==
    /\ phase = "ready"
    /\ inflight["manual"] > 0
    /\ inflight' = Settled("manual")
    /\ \E r \in Results : analysis' = r
    /\ loading' = FALSE
    /\ error' = ""
    /\ Receives("analyzeCalendarManual:ok", Ok)
    /\ UNCHANGED <<user, calendarData, timePeriod, showManual, storage, url, phase>>
    /\ Commit

\* ... the response: the analysis result
analyzeCalendarManualOk ==
    /\ phase = "ready"
    /\ inflight["manual"] > 0
    /\ inflight' = Settled("manual")
    /\ \E r \in Results : analysis' = r
    /\ loading' = FALSE
    /\ Receives("analyzeCalendarManual:ok", Ok)
    /\ UNCHANGED <<user, calendarData, timePeriod, error, showManual, storage,
                   url, phase>>
    /\ Commit

\* a failure of the manual analyze handled as the automatic one handles its own
analyzeCalendarManualFail_AsAuto ==
    /\ phase = "ready"
    /\ inflight["manual"] > 0
    /\ inflight' = Settled("manual")
    /\ \E err \in Failures :
        /\ error' = AutoError(err)
        /\ Receives("analyzeCalendarManual:fail", err)
    /\ loading' = FALSE
    /\ UNCHANGED <<user, calendarData, timePeriod, analysis, showManual, storage,
                   url, phase>>
    /\ Commit

\* ... the request failed
analyzeCalendarManualFail ==
    /\ phase = "ready"
    /\ inflight["manual"] > 0
    /\ inflight' = Settled("manual")
    /\ \E err \in Failures :
        /\ error' = OrElse(DetailOf(err), MsgManualFailed)
        /\ Receives("analyzeCalendarManual:fail", err)
    /\ loading' = FALSE
    /\ UNCHANGED <<user, calendarData, timePeriod, analysis, showManual, storage,
                   url, phase>>
    /\ Commit

\* a logout that leaves the profile in storage
logout_KeepsProfile ==
    /\ phase = "ready"
    /\ storage' = [storage EXCEPT !.access_token = none]
    /\ user' = null
    /\ analysis' = null
    /\ calendarData' = <<>>
    /\ error' = ""
    /\ showManual' = FALSE
    /\ Quiet("logout")
    /\ UNCHANGED <<timePeriod, loading, url, phase, inflight>>
    /\ Commit

\* a logout that leaves the pasted text
logout_KeepsText ==
    /\ phase = "ready"
    /\ storage' = [access_token |-> none, user_data |-> null]
    /\ user' = null
    /\ analysis' = null
    /\ error' = ""
    /\ showManual' = FALSE
    /\ Quiet("logout")
    /\ UNCHANGED <<calendarData, timePeriod, loading, url, phase, inflight>>
    /\ Commit

\* a logout that leaves both storage slots in place
logout_KeepsStorage ==
    /\ phase = "ready"
    /\ user' = null
    /\ analysis' = null
    /\ calendarData' = <<>>
    /\ error' = ""
    /\ showManual' = FALSE
    /\ Quiet("logout")
    /\ UNCHANGED <<storage, timePeriod, loading, url, phase, inflight>>
    /\ Commit

logout ==
    /\ phase = "ready"
    /\ storage' = [access_token |-> none, user_data |-> null]
    /\ user' = null
    /\ analysis' = null
    /\ calendarData' = <<>>
    /\ error' = ""
    /\ showManual' = FALSE
    /\ Quiet("logout")
    /\ UNCHANGED <<timePeriod, loading, url, phase, inflight>>
    /\ Commit

\* a reset that also leaves manual mode
resetAnalysis_LeavesManual ==
    /\ phase = "ready"
    /\ analysis' = null
    /\ calendarData' = <<>>
    /\ error' = ""
    /\ showManual' = FALSE
    /\ Quiet("resetAnalysis")
    /\ UNCHANGED <<user, timePeriod, loading, storage, url, phase, inflight>>
    /\ Commit

resetAnalysis ==
    /\ phase = "ready"
    /\ analysis' = null
    /\ calendarData' = <<>>
    /\ error' = ""
    /\ Quiet("resetAnalysis")
    /\ UNCHANGED <<user, timePeriod, loading, showManual, storage, url, phase,
                   inflight>>
    /\ Commit

\* the inline state setters of the controls
setShowManual(b) ==
    /\ phase = "ready"
    /\ showManual' = b
    /\ Quiet("setShowManual")
    /\ UNCHANGED <<user, calendarData, timePeriod, analysis, loading, error,
                   storage, url, phase, inflight>>
    /\ Commit

setTimePeriod(v) ==
    /\ phase = "ready"
    /\ timePeriod' = v
    /\ Quiet("setTimePeriod")
    /\ UNCHANGED <<user, calendarData, analysis, loading, error, showManual,
                   storage, url, phase, inflight>>
    /\ Commit

setCalendarData(t) ==
    /\ phase = "ready"
    /\ calendarData' = t
    /\ Quiet("setCalendarData")
    /\ UNCHANGED <<user, timePeriod, analysis, loading, error, showManual,
                   storage, url, phase, inflight>>
    /\ Commit

----------------------------------------------------------------------------
(* The controls of the committed render: a handler runs when its control is *)
(* on the screen and not disabled                                           *)

\* login screen: the GoogleLogin widget (onSuccess, onError) and the link
ClickGoogleLogin == screen = "login" /\ handleGoogleLogin
GoogleLoginFails == screen = "login" /\ handleGoogleLoginError
\* a manual-mode link shown on every screen
ClickAnalyzeManually_AnyScreen == setShowManual(TRUE)
ClickAnalyzeManually == screen = "login" /\ setShowManual(TRUE)

\* manual-entry screen
ClickBackToLogin == screen = "manual" /\ setShowManual(FALSE)

\* the form of the manual-entry screen and of the dashboard
SelectTimePeriod ==
    /\ FormShown
    /\ \/ screen = "manual" /\ \E v \in Offered(ManualOptions) : setTimePeriod(v)
       \/ screen = "dashboard" /\ \E v \in Offered(DashboardOptions) : setTimePeriod(v)

TypeCalendarData ==
    /\ screen \in {"manual", "dashboard"}
    /\ FormShown
    /\ \E t \in Texts : setCalendarData(t)

ClickAnalyzeManual ==
    /\ screen \in {"manual", "dashboard"}
    /\ FormShown
    /\ ~(loading \/ Trim(calendarData) = <<>>)
    /\ analyzeCalendarManual

\* dashboard
ClickAuthorize == screen = "dashboard" /\ FormShown /\ requestCalendarAccess
\* an automatic analyze button shown on every screen
ClickAnalyzeAuto_AnyScreen == FormShown /\ ~loading /\ analyzeCalendarAuto
ClickAnalyzeAuto ==
    screen = "dashboard" /\ FormShown /\ ~loading /\ analyzeCalendarAuto
ClickLogout == screen = "dashboard" /\ logout

\* the result panel of the manual-entry screen and of the dashboard
ClickReset == screen \in {"manual", "dashboard"} /\ ~FormShown /\ resetAnalysis

\* a response arrives
Response ==
    \/ handleGoogleLoginOk
    \/ handleGoogleLoginFail
    \/ requestCalendarAccessOk
    \/ requestCalendarAccessFail
    \/ analyzeCalendarAutoOk
    \/ analyzeCalendarAutoFail
    \/ analyzeCalendarManualOk
    \/ analyzeCalendarManualFail

\* the application in the browser
Next ==
    \/ useEffectInit
    \/ PageLoad
    \/ ClickGoogleLogin
    \/ GoogleLoginFails
    \/ ClickAnalyzeManually
    \/ ClickBackToLogin
    \/ SelectTimePeriod
    \/ TypeCalendarData
    \/ ClickAnalyzeManual
    \/ ClickAuthorize
    \/ ClickAnalyzeAuto
    \/ ClickLogout
    \/ ClickReset
    \/ Response

Spec == Init /\ [][Next]_vars

\* analyzeCalendarManual rejects a blank text itself, although its button is
\* disabled for one: the handler is therefore also run as called directly,
\* whatever the render shows or disables
Direct == analyzeCalendarManual

NextDirect == Next \/ Direct

SpecDirect == Init /\ [][NextDirect]_vars

----------------------------------------------------------------------------
(* The reload variant of the controller (src/unnamed/part_001): its mount  *)
(* effect answers auth=success by clearing the query string and reloading   *)
(* the page. Its handlers and controls are those above except for           *)
(* analyzeCalendarManual, whose messages differ and which is left out here. *)

\* the mount effect that leaves the query string in place before it reloads
useEffectInitReload_KeepsParams ==
    /\ phase = "render1"
    /\ user' = IF Truthy(storage.access_token) /\ storage.user_data # null
               THEN JSONParse(storage.user_data) ELSE user
    /\ IF url.auth = "success"
       THEN /\ url' = url
            /\ phase' = "reloading"
            /\ error' = error
       ELSE IF url.auth = "error"
       THEN /\ error' = MsgOAuthFailed
            /\ phase' = "ready"
            /\ url' = url
       ELSE /\ phase' = "ready"
            /\ UNCHANGED <<url, error>>
    /\ Quiet("useEffect:reload-variant")
    /\ UNCHANGED <<calendarData, timePeriod, analysis, loading, showManual,
                   storage, inflight>>
    /\ Commit

\* the mount effect that reloads after every load
useEffectInitReload_ReloadsAlways ==
    /\ phase = "render1"
    /\ user' = IF Truthy(storage.access_token) /\ storage.user_data # null
               THEN JSONParse(storage.user_data) ELSE user
    /\ url' = NoParams
    /\ phase' = "reloading"
    /\ error' = error
    /\ Quiet("useEffect:reload-variant")
    /\ UNCHANGED <<calendarData, timePeriod, analysis, loading, showManual,
                   storage, inflight>>
    /\ Commit

\* the mount effect: restore the session from storage; on auth=success
\* history.replaceState to the bare path, then window.location.reload()
useEffectInitReload ==
    /\ phase = "render1"
    /\ user' = IF Truthy(storage.access_token) /\ storage.user_data # null
               THEN JSONParse(storage.user_data) ELSE user
    /\ IF url.auth = "success"
       THEN /\ url' = NoParams
            /\ phase' = "reloading"
            /\ error' = error
       ELSE IF url.auth = "error"
       THEN /\ error' = MsgOAuthFailed
            /\ phase' = "ready"
            /\ url' = url
       ELSE /\ phase' = "ready"
            /\ UNCHANGED <<url, error>>
    /\ Quiet("useEffect:reload-variant")
    /\ UNCHANGED <<calendarData, timePeriod, analysis, loading, showManual,
                   storage, inflight>>
    /\ Commit

\* the reload the effect asked for: the page starts over at the URL the
\* address bar now shows
Reload ==
    /\ phase = "reloading"
    /\ user' = null
    /\ calendarData' = <<>>
    /\ timePeriod' = "this_week"
    /\ analysis' = null
    /\ loading' = FALSE
    /\ error' = ""
    /\ showManual' = FALSE
    /\ phase' = "render1"
    /\ inflight' = NoneInFlight
    /\ Quiet("reload")
    /\ UNCHANGED <<storage, url>>
    /\ Commit

\* a response arrives, in the reload variant
ResponseReload ==
    \/ handleGoogleLoginOk
    \/ handleGoogleLoginFail
    \/ requestCalendarAccessOk
    \/ requestCalendarAccessFail
    \/ analyzeCalendarAutoOk
    \/ analyzeCalendarAutoFail

\* the reload variant in the browser
NextReload ==
    \/ useEffectInitReload
    \/ Reload
    \/ PageLoad
    \/ ClickGoogleLogin
    \/ GoogleLoginFails
    \/ ClickAnalyzeManually
    \/ ClickBackToLogin
    \/ SelectTimePeriod
    \/ ClickAuthorize
    \/ ClickAnalyzeAuto
    \/ ClickLogout
    \/ ClickReset
    \/ ResponseReload

\* React runs the mount effect once the first render is committed, and the
\* browser carries out a reload that was asked for
SpecReload ==
    /\ Init
    /\ [][NextReload]_vars
    /\ WF_vars(useEffectInitReload)
    /\ WF_vars(Reload)

\* either variant deployed: each load runs the mount effect of one of them
NextVariants == Next \/ NextReload

SpecVariants == Init /\ [][NextVariants]_vars

----------------------------------------------------------------------------
(* The claims *)

\* a text with nothing but whitespace in it (the empty text too)
WhitespaceOnly(t) == \A i \in 1..Len(t) : IsSpace(t[i])

StoredSession == Truthy(storage.access_token) /\ storage.user_data # null

AnalyzeSucceeded == last \in {"analyzeCalendarAuto:ok", "analyzeCalendarManual:ok"}

\* C1: in every reachable state exactly one of the three screens is shown,
\* and it is the one the pair (showManual, user) selects: manual mode gives
\* the manual-entry screen whatever the session, otherwise no session gives
\* the login screen, otherwise the dashboard.
C1_ScreenSelection ==
    /\ screen \in {"manual", "login", "dashboard"}
    /\ showManual => screen = "manual"
    /\ ~showManual /\ user = null => screen = "login"
    /\ ~showManual /\ user # null => screen = "dashboard"

\* the manual-entry screen shown to a signed-in user, with a result and an
\* error in the state
C1_Witness ==
    showManual /\ user # null /\ screen = "manual" /\ analysis # null /\ error # ""

\* C2: the analysis result is null whenever loading is true.
C2_AnalysisNullWhileLoading == loading => analysis = null

\* C3: manual analyze called with empty or whitespace-only text sends nothing,
\* sets the validation message and leaves loading, analysis, session and the
\* text as they were; called with any non-whitespace character it sends
\* exactly one POST to the analyze-calendar endpoint.
C3_ManualValidation ==
    [][last' = "analyzeCalendarManual" =>
        IF WhitespaceOnly(calendarData)
        THEN /\ net' = NoRequest
             /\ inflight' = inflight
             /\ error' = MsgPasteFirst
             /\ UNCHANGED <<loading, analysis, user, calendarData>>
        ELSE /\ net'.method = "POST"
             /\ net'.endpoint = "/api/analyze-calendar"
             /\ inflight' = [inflight EXCEPT !["manual"] = @ + 1]
    ]_vars

\* the rejection of a text that is not empty but holds only whitespace
C3_Witness ==
    /\ last = "analyzeCalendarManual"
    /\ calendarData # <<>>
    /\ WhitespaceOnly(calendarData)
    /\ error = MsgPasteFirst
    /\ net = NoRequest

C5_ResetFrame ==
    [][last' = "resetAnalysis" =>
        /\ analysis' = null
        /\ calendarData' = <<>>
        /\ error' = ""
        /\ UNCHANGED <<user, showManual, timePeriod, loading, storage>>
    ]_vars

\* a reset in manual mode while a request is pending
C5_Witness == last = "resetAnalysis" /\ showManual /\ loading /\ analysis = null

\* C6: right after logout the session is null, the manual-mode flag is false,
\* neither storage slot exists and the login screen is shown.
C6_AfterLogout ==
    last = "logout" =>
        /\ user = null
        /\ ~showManual
        /\ storage.access_token = none
        /\ storage.user_data = null
        /\ screen = "login"

\* a logout
C6_Witness == last = "logout" /\ screen = "login" /\ storage = EmptyStorage

\* C7 as stated: the controller state after logout is that of a first load
\* with empty storage and no query parameters.
C7_LogoutIsFirstLoad ==
    last = "logout" =>
        /\ user = null
        /\ calendarData = <<>>
        /\ timePeriod = "this_week"
        /\ analysis = null
        /\ loading = FALSE
        /\ error = ""
        /\ showManual = FALSE
        /\ storage = EmptyStorage

\* C7, amended: after logout the session, the pasted text, the result, the
\* error, the manual-mode flag and the storage slots are those of a first
\* load with empty storage; the time period and loading are left as they were.
C7_LogoutClearsAllButPeriodAndLoading ==
    [][last' = "logout" =>
        /\ user' = null
        /\ calendarData' = <<>>
        /\ analysis' = null
        /\ error' = ""
        /\ showManual' = FALSE
        /\ storage' = EmptyStorage
        /\ UNCHANGED <<timePeriod, loading>>
    ]_vars

\* a logout with another period selected and a request pending
C7_Witness == last = "logout" /\ timePeriod # "this_week" /\ loading

\* C8 as stated: when the credential exchange succeeds storage holds the
\* returned token and the serialized user, the session is that user, loading
\* is false and the dashboard is shown.
C8_LoginShowsDashboard ==
    last = "handleGoogleLogin:ok" =>
        /\ storage.access_token = BackendToken
        /\ storage.user_data = JSONStringify(BackendUser)
        /\ user = BackendUser
        /\ ~loading
        /\ screen = "dashboard"

\* C8, amended: ... and the dashboard is shown unless the manual-mode flag is
\* set, in which case the manual-entry screen stays.
C8_LoginStoresSession ==
    last = "handleGoogleLogin:ok" =>
        /\ storage.access_token = BackendToken
        /\ storage.user_data = JSONStringify(BackendUser)
        /\ JSONParse(storage.user_data) = user
        /\ user = BackendUser
        /\ ~loading
        /\ screen = IF showManual THEN "manual" ELSE "dashboard"

\* a sign-in that replaced what storage held and led to the dashboard
C8_Witness ==
    /\ last = "handleGoogleLogin:ok"
    /\ screen = "dashboard"
    /\ storage.access_token = BackendToken

\* C9: when the credential exchange fails the error is the detail of the
\* backend if there is one and the login fallback otherwise, loading is
\* false, and the session and both storage slots are as they were.
C9_LoginFailure ==
    [][last' = "handleGoogleLogin:fail" =>
        /\ error' = IF resp'.detail = none THEN MsgLoginFailed ELSE resp'.detail
        /\ ~loading'
        /\ UNCHANGED <<user, storage>>
    ]_vars

\* a failed sign-in showing the detail of the backend, no session
C9_Witness ==
    /\ last = "handleGoogleLogin:fail"
    /\ error = BackendDetail
    /\ user = null
    /\ storage = EmptyStorage

\* C10: a load with both storage slots populated and no auth parameter shows
\* the dashboard first: the login screen is not shown before it.
C10_NoLoginFlash ==
    phase = "render1" /\ StoredSession /\ url.auth = none => screen = "dashboard"

\* the mount effect has just run on a load that carried auth=error
OAuthCallbackFailed == last = "useEffect" /\ url.auth = "error"

\* C11: the mount effect of a load with auth=error and empty storage sets the
\* error to the OAuth-callback failure message, leaves the session null,
\* writes nothing to storage and sends no request.
C11_CallbackErrorEmptyStorage ==
    [][last' = "useEffect" /\ url.auth = "error" /\ storage = EmptyStorage =>
        /\ error' = MsgOAuthFailed
        /\ user' = null
        /\ storage' = EmptyStorage
        /\ net' = NoRequest
        /\ inflight' = NoneInFlight
    ]_vars

\* the failed callback on a browser with nothing stored
C11_Witness ==
    /\ OAuthCallbackFailed
    /\ storage = EmptyStorage
    /\ error = MsgOAuthFailed
    /\ user = null
    /\ screen = "login"

\* C12 as stated: the mount effect of a load with auth=error sets the error
\* and leaves the session null, whatever storage holds.
C12_CallbackErrorSessionNull ==
    OAuthCallbackFailed => error = MsgOAuthFailed /\ user = null

\* C12, amended: the mount effect of a load with auth=error sets the error,
\* creates no session from the query string and writes nothing to storage;
\* the session is the one storage restores, null when storage holds none.
C12_CallbackErrorKeepsStoredSession ==
    [][last' = "useEffect" /\ url.auth = "error" =>
        /\ error' = MsgOAuthFailed
        /\ user' = IF StoredSession THEN JSONParse(storage.user_data) ELSE null
        /\ UNCHANGED <<storage, url>>
    ]_vars

\* the failed callback of a signed-in user: the error on the dashboard
C12_Witness ==
    /\ OAuthCallbackFailed
    /\ error = MsgOAuthFailed
    /\ user = StoredUser
    /\ screen = "dashboard"

\* C13: a failed automatic analyze with status 401 sets the error to the
\* calendar-access-required message, a detail of the backend notwithstanding;
\* any other failure sets it to the detail if there is one and to the
\* analyze fallback otherwise; either way the result is left as it was and
\* loading is false.
C13_AutoFailureMessage ==
    [][last' = "analyzeCalendarAuto:fail" =>
        /\ error' = IF resp'.status = HTTP_UNAUTHORIZED THEN MsgCalendarAccessRequired
                    ELSE IF resp'.detail # none THEN resp'.detail
                    ELSE MsgAutoFailed
        /\ analysis' = analysis
        /\ ~loading'
    ]_vars

\* a 401 that carried a detail of the backend
C13_Witness ==
    /\ last = "analyzeCalendarAuto:fail"
    /\ resp.status = HTTP_UNAUTHORIZED
    /\ resp.detail = BackendDetail
    /\ error = MsgCalendarAccessRequired
    /\ ~loading

\* C14: a failed manual analyze, one with status 401 included, sets the error
\* to the detail of the backend if there is one and to the manual fallback
\* otherwise, never to the calendar-access-required message; and the manual
\* request carries no Authorization header.
C14_ManualFailureGeneric ==
    /\ last = "analyzeCalendarManual:fail" =>
            /\ error # MsgCalendarAccessRequired
            /\ error = IF resp.detail # none THEN resp.detail ELSE MsgManualFailed
    /\ last = "analyzeCalendarManual" /\ net # NoRequest =>
            net.authorization = none

\* a manual analyze refused with 401 and no detail
C14_Witness ==
    /\ last = "analyzeCalendarManual:fail"
    /\ resp.status = HTTP_UNAUTHORIZED
    /\ resp.detail = none
    /\ error = MsgManualFailed

\* the steps that run a network-issuing handler up to its await, and the
\* steps that run the rest of one
Invocations ==
    {"handleGoogleLogin", "requestCalendarAccess", "analyzeCalendarAuto",
     "analyzeCalendarManual"}
FailureCallbacks ==
    {"handleGoogleLogin:fail", "requestCalendarAccess:fail",
     "analyzeCalendarAuto:fail", "analyzeCalendarManual:fail"}
SuccessCallbacks ==
    {"handleGoogleLogin:ok", "requestCalendarAccess:ok",
     "analyzeCalendarAuto:ok", "analyzeCalendarManual:ok"}

\* the message a failure callback shows for the error it received
FailureMessage(callback, err) ==
    IF callback = "analyzeCalendarAuto:fail" /\ err.status = HTTP_UNAUTHORIZED
    THEN MsgCalendarAccessRequired
    ELSE IF err.detail # none THEN err.detail
    ELSE IF callback = "handleGoogleLogin:fail" THEN MsgLoginFailed
    ELSE IF callback = "requestCalendarAccess:fail" THEN MsgCalendarAccessFailed
    ELSE IF callback = "analyzeCalendarAuto:fail" THEN MsgAutoFailed
    ELSE MsgManualFailed

\* C15 as stated: invoking a network-issuing operation sets loading to true,
\* and its success or failure callback sets loading to false and updates
\* exactly one of the result and the error.
C15_CallbackUpdatesResultOrError ==
    [][/\ last' \in Invocations /\ net' # NoRequest => loading'
       /\ last' \in SuccessCallbacks \cup FailureCallbacks =>
            /\ ~loading'
            /\ \/ analysis' \in Results /\ error' = error
               \/ error' # "" /\ analysis' = analysis
    ]_vars

\* C15, amended: invoking a network-issuing operation sets loading to true;
\* a failure callback sets loading to false and the error, and leaves the
\* result; the success callback of an analyze sets loading to false and the
\* result, and leaves the error; that of the credential exchange sets
\* loading to false and leaves both; that of the authorization request
\* navigates away and leaves loading, result and error as they were.
C15_CallbackEffects ==
    [][/\ last' \in Invocations /\ net' # NoRequest => loading'
       /\ last' \in FailureCallbacks =>
            /\ ~loading'
            /\ error' = FailureMessage(last', resp')
            /\ analysis' = analysis
       /\ last' \in {"analyzeCalendarAuto:ok", "analyzeCalendarManual:ok"} =>
            /\ ~loading'
            /\ analysis' \in Results
            /\ error' = error
       /\ last' = "handleGoogleLogin:ok" =>
            /\ ~loading'
            /\ UNCHANGED <<analysis, error>>
       /\ last' = "requestCalendarAccess:ok" =>
            /\ phase' = "away"
            /\ UNCHANGED <<loading, analysis, error>>
    ]_vars

\* the authorization request answered: loading still true, no result, no error
C15_Witness ==
    /\ last = "requestCalendarAccess:ok"
    /\ loading
    /\ analysis = null
    /\ error = ""

\* the analyze requests awaiting their response, and the callbacks of one
AnalyzesInFlight == inflight["auto"] + inflight["manual"]
AnalyzeCallbacks ==
    {"analyzeCalendarAuto:ok", "analyzeCalendarAuto:fail",
     "analyzeCalendarManual:ok", "analyzeCalendarManual:fail"}

\* C16: of two analyze requests in flight at once the response that arrives
\* last wins: when it arrives right after the other one, the result and the
\* error are those of the last response alone, its result and no error if it
\* succeeded, its error and no result if it failed.
C16_LastArrivalWins ==
    [][/\ last \in AnalyzeCallbacks
       /\ AnalyzesInFlight = 1
       /\ last' \in AnalyzeCallbacks
       => IF last' \in SuccessCallbacks
          THEN analysis' \in Results /\ error' = ""
          ELSE error' = FailureMessage(last', resp') /\ analysis' = null
    ]_vars

\* C17: no operation retries. A step sends a request exactly when it is the
\* invocation of a network-issuing operation that passed its validation, and
\* then it sends one; a failure callback sets the error once, settles its
\* request and sends nothing, and no other step sends anything.
C17_NoRetry ==
    [][/\ last' \in Invocations \ {"analyzeCalendarManual"} =>
            net' # NoRequest /\ InFlightTotal' = InFlightTotal + 1
       /\ last' = "analyzeCalendarManual" =>
            IF WhitespaceOnly(calendarData)
            THEN net' = NoRequest /\ inflight' = inflight
            ELSE net' # NoRequest /\ InFlightTotal' = InFlightTotal + 1
       /\ last' \notin Invocations =>
            net' = NoRequest /\ InFlightTotal' <= InFlightTotal
       /\ last' \in FailureCallbacks =>
            /\ error' = FailureMessage(last', resp')
            /\ InFlightTotal' = InFlightTotal - 1
    ]_vars

\* a failure shown to the user with nothing sent after it
C17_Witness ==
    /\ last = "analyzeCalendarAuto:fail"
    /\ error = MsgAutoFailed
    /\ net = NoRequest
    /\ InFlightTotal = 0

\* an error of a request or of the OAuth callback has just been recorded
RequestErrorRecorded == last \in FailureCallbacks \/ OAuthCallbackFailed
\* an error of the validation or of the identity widget has just been recorded
LocalErrorRecorded ==
    \/ last = "handleGoogleLoginError"
    \/ last = "analyzeCalendarManual" /\ net = NoRequest

\* the controls that stay usable: on every screen one that switches screens,
\* the analyze buttons of a form, the reset button of a result panel
ControlsUsable ==
    /\ screen = "login" => ENABLED ClickAnalyzeManually
    /\ screen = "manual" => ENABLED ClickBackToLogin
    /\ screen = "dashboard" => ENABLED ClickLogout
    /\ screen = "dashboard" /\ FormShown => ENABLED ClickAnalyzeAuto
    /\ screen \in {"manual", "dashboard"} /\ FormShown =>
            /\ ENABLED TypeCalendarData
            /\ Trim(calendarData) # <<>> => ENABLED ClickAnalyzeManual
    /\ screen \in {"manual", "dashboard"} /\ ~FormShown => ENABLED ClickReset

\* C18 as stated: right after any error is recorded loading is false, and
\* with no request in flight the user can trigger an analyze or switch
\* screens.
C18_LoadingFalseAfterAnyError ==
    /\ RequestErrorRecorded \/ LocalErrorRecorded => ~loading
    /\ phase = "ready" /\ InFlightTotal = 0 => ControlsUsable

\* C18, amended: right after the failure of a request or the OAuth-callback
\* error loading is false; the validation and the failure of the identity
\* widget leave loading alone, which is then true only while a request is
\* still in flight; with no request in flight loading is false and the user
\* can trigger an analyze or switch screens.
C18_ErrorsLeaveAppUsable ==
    /\ RequestErrorRecorded => ~loading
    /\ phase = "ready" /\ loading => InFlightTotal > 0
    /\ phase = "ready" /\ InFlightTotal = 0 => ControlsUsable

\* the identity widget failed while the credential exchange was pending
C18_Witness ==
    /\ last = "handleGoogleLoginError"
    /\ error = MsgWidgetFailed
    /\ loading
    /\ inflight["login"] = 1

\* C19: the success of the authorization request navigates the page away and
\* the operation changes no controller state but loading and error; its
\* failure does not navigate, sets the error to the detail of the backend if
\* there is one and to the fallback otherwise, sets loading to false and
\* leaves session, manual-mode flag, result, storage and screen as they were.
C19_CalendarAuthorization ==
    [][/\ last' = "requestCalendarAccess" =>
            /\ phase' = "ready"
            /\ UNCHANGED <<user, calendarData, timePeriod, analysis, showManual,
                           storage>>
       /\ last' = "requestCalendarAccess:ok" =>
            /\ phase' = "away"
            /\ UNCHANGED <<user, calendarData, timePeriod, analysis, showManual,
                           storage>>
       /\ last' = "requestCalendarAccess:fail" =>
            /\ phase' = "ready"
            /\ error' = IF resp'.detail # none THEN resp'.detail
                        ELSE MsgCalendarAccessFailed
            /\ ~loading'
            /\ UNCHANGED <<user, showManual, analysis, storage, screen>>
    ]_vars

\* the page gone to the authorization URL
C19_Witness ==
    /\ last = "requestCalendarAccess:ok"
    /\ phase = "away"
    /\ user # null

\* the documented spellings of the time period
TimePeriods == {"today", "this_week", "this_month", "recent_days"}

\* C20: the time period of every analyze request, manual or automatic, is one
\* of today, this_week, this_month, recent_days.
C20_TimePeriodInEnumeration ==
    net.endpoint \in {"/api/analyze-calendar", "/api/analyze-calendar-auto"} =>
        net.time_period \in TimePeriods

\* C21: an automatic analyze request is never issued while the session is
\* null; it carries as bearer token the access token storage holds when the
\* operation is invoked, never a missing one, and the selected time period.
C21_AutoRequestAuthenticated ==
    last = "analyzeCalendarAuto" =>
        /\ user # null
        /\ net.endpoint = "/api/analyze-calendar-auto"
        /\ Truthy(net.authorization)
        /\ net.authorization = storage.access_token
        /\ net.time_period = timePeriod

\* an automatic analyze sent with the token of the stored session, for a
\* period other than the default
C21_Witness ==
    /\ last = "analyzeCalendarAuto"
    /\ net.authorization = StoredToken
    /\ net.time_period = "today"
    /\ user = StoredUser

\* the mount effect of either variant has run
MountEffects == {"useEffect", "useEffect:reload-variant"}

\* C22 as stated: in both variants the mount effect of a load with
\* auth=success, with or without token and profile fields, clears the query
\* string and then either restores the session directly or reloads the page.
C22_SuccessClearsParams ==
    [][last' \in MountEffects /\ url.auth = "success" =>
        /\ url' = NoParams
        /\ \/ phase' = "reloading"
           \/ phase' = "ready" /\ user' = UrlUser(url)
    ]_vars

\* C22, amended: on a load with auth=success the reload variant clears the
\* query string and reloads, whatever else the query string holds; the
\* inline-token variant clears it and installs the session of the query
\* string when token and user are both there, and otherwise neither clears
\* the query string, nor reloads, nor writes storage.
C22_SuccessPerVariant ==
    [][/\ last' = "useEffect:reload-variant" /\ url.auth = "success" =>
            /\ url' = NoParams
            /\ phase' = "reloading"
            /\ storage' = storage
       /\ last' = "useEffect" /\ url.auth = "success" =>
            /\ phase' = "ready"
            /\ IF Truthy(url.token) /\ Truthy(url.user)
               THEN url' = NoParams /\ user' = UrlUser(url)
               ELSE url' = url /\ storage' = storage
    ]_vars

\* the inline-token variant mounted with a bare auth=success still in the
\* address bar
C22_Witness ==
    /\ last = "useEffect"
    /\ phase = "ready"
    /\ url.auth = "success"

\* C23: in the inline-token variant the mount effect of a load with
\* auth=success and non-empty token and user overwrites both storage slots
\* and the session with {email: user, name: name, id: user}, whatever storage
\* held; with token or user missing, storage is left alone and the session is
\* the one restored from storage.
C23_InlineTokenOverwrites ==
    [][last' = "useEffect" /\ url.auth = "success" =>
        IF Truthy(url.token) /\ Truthy(url.user)
        THEN /\ storage'.access_token = url.token
             /\ JSONParse(storage'.user_data) =
                    [email |-> url.user, name |-> url.name, id |-> url.user]
             /\ user' = [email |-> url.user, name |-> url.name, id |-> url.user]
        ELSE /\ storage' = storage
             /\ user' = IF StoredSession THEN JSONParse(storage.user_data) ELSE null
    ]_vars

\* the session of the query string installed
C23_Witness ==
    /\ last = "useEffect"
    /\ user = [email |-> "q@x.com", name |-> "Q", id |-> "q@x.com"]
    /\ storage.access_token = "tq"
    /\ JSONParse(storage.user_data) = user
    /\ screen = "dashboard"

\* C24: whenever a request of the controller is in flight, loading is true.
C24_LoadingWhileInFlight ==
    phase = "ready" /\ InFlightTotal > 0 => loading

\* C25: a response that arrives after logout for an analyze that was started
\* before it leaves analysis null; stated for the response that arrives right
\* after the logout.
C25_NoResultAfterLogout ==
    [][last = "logout"
       /\ last' \in {"analyzeCalendarAuto:ok", "analyzeCalendarManual:ok"}
       => analysis' = null
    ]_vars

\* C26: the response of a credential exchange that was started before a
\* logout neither re-creates the session nor rewrites storage; stated for the
\* response that arrives right after the logout.
C26_NoSessionAfterLogout ==
    [][last = "logout" /\ last' = "handleGoogleLogin:ok"
       => user' = null /\ storage' = EmptyStorage
    ]_vars

\* C27 as stated: the manual-mode flag is true only while there is no session.
C27_ManualOnlyWithoutSession == showManual => user = null

\* C27, amended: the manual-mode flag is turned on only while there is no
\* session; flag and session are both present only from the moment a
\* credential exchange succeeds while the flag is on, and the manual-entry
\* screen then shown has the control that leads back, to the dashboard.
C27_ManualTurnedOnWithoutSession ==
    /\ [][showManual' /\ ~showManual =>
            user = null /\ user' = null /\ last' = "setShowManual"]_vars
    /\ [][showManual' /\ user' # null /\ ~(showManual /\ user # null) =>
            showManual /\ last' = "handleGoogleLogin:ok"]_vars
    /\ [](phase = "ready" /\ showManual /\ user # null =>
            screen = "manual" /\ ENABLED ClickBackToLogin)

\* a sign-in that completed on the manual-entry screen
C27_Witness ==
    /\ last = "handleGoogleLogin:ok"
    /\ showManual
    /\ user = BackendUser
    /\ screen = "manual"

\* C28: once the mount effect has run, the session is non-null exactly when
\* both storage slots are present, and the user_data slot then deserializes
\* to the session.
C28_SessionAgreesWithStorage ==
    phase # "render1" =>
        /\ user # null <=> StoredSession
        /\ user # null => JSONParse(storage.user_data) = user

\* a load that restored the user the last sign-in had stored
C28_Witness ==
    /\ last = "useEffect"
    /\ url.auth = none
    /\ user = BackendUser
    /\ storage.access_token = BackendToken
    /\ JSONParse(storage.user_data) = BackendUser

\* every option value of a selector
AllOptions(options) == {options[i] : i \in 1..Len(options)}

\* C29: the time period of an analyze request is one of the option values of
\* the selector of the screen it is issued from: of the manual-entry screen's
\* for a request from there, of the dashboard's for an automatic analyze.
C29_TimePeriodOfferedByScreen ==
    /\ last = "analyzeCalendarManual" /\ net # NoRequest /\ screen = "manual" =>
            net.time_period \in AllOptions(ManualOptions)
    /\ last = "analyzeCalendarAuto" =>
            net.time_period \in AllOptions(DashboardOptions)

\* C30: in the reload variant a load with auth=success leads to exactly one
\* reload: the reloaded page has no auth parameter, its mount effect does not
\* reload again, and initialization settles with the session restored from
\* storage, null when storage is empty.
C30_OneReload ==
    /\ [][last' = "useEffect:reload-variant" =>
            (phase' = "reloading" <=> url.auth = "success")]_vars
    /\ [][last' = "reload" => url'.auth = none /\ phase' = "render1"]_vars
    /\ [][last = "reload" =>
            /\ last' = "useEffect:reload-variant"
            /\ phase' = "ready"
            /\ user' = IF StoredSession THEN JSONParse(storage.user_data) ELSE null
       ]_vars
    /\ (phase = "reloading" ~>
            /\ phase = "ready"
            /\ url.auth = none
            /\ user = IF StoredSession THEN JSONParse(storage.user_data) ELSE null)

\* the page settled after its reload, the stored session restored
C30_Witness ==
    /\ last = "useEffect:reload-variant"
    /\ phase = "ready"
    /\ url = NoParams
    /\ user = StoredUser
    /\ screen = "dashboard"

====
